---- MODULE Spec2Model ----
(***************************************************************************)
(* Model of app.py, the Streamlit chat assistant for the ouderschapsplan.  *)
(* The session state (question_list, history, initialized), the handlers   *)
(* that change it (auto-initialize block, chat input handler, reset        *)
(* button) and the helpers they call (send_to_gemini, merge_updates,       *)
(* compute_progress), plus the text helpers of the response decoder        *)
(* (_normalize_quotes, _extract_balanced_json, coerce_json).               *)
(***************************************************************************)
EXTENDS Integers, Sequences, FiniteSets, TLC

VARIABLES
    question_list,  \* st.session_state.question_list
    history,        \* st.session_state.history
    initialized,    \* st.session_state.initialized
    pc,             \* where the script run is: "run", "end" or "idle"
    turn,           \* locals of the handler that ran last, until the run ends
    calls,          \* outbound model calls issued for the current user action
    text,           \* the raw text of a model reply (resp.text)
    decoded         \* what the decoder made of text

vars == <<question_list, history, initialized, pc, turn, calls, text, decoded>>

(***************************************************************************)
(* Bounds.                                                                 *)
(***************************************************************************)
\* Longest transcript the model explores; handlers that would exceed it
\* are not started.
MaxHistory == 4
\* Longest patch sequence handed to merge_updates in the merge specification.
MaxMergeUpdates == 2
\* Longest answer string of a reply in the decoder specification.
MaxAnswerLen == 2

(***************************************************************************)
(* Values.  A missing dict key and an empty string are both "" (Python's   *)
(* `not q.get(k)` is true of both); a missing "position" key is 0.         *)
(***************************************************************************)
NoId == ""
NoPosition == 0

Greeting == "Hallo, ik ben klaar om te beginnen met de vragenlijst."

Question(id, position, tpl) ==
    [id |-> id, position |-> position, status |-> "pending", answer |-> "",
     summary |-> "", summary_template |-> tpl]

\* The static template loaded from questions/questions.json: unique ids,
\* listed in position order, nothing answered yet.
question_list_template ==
    <<Question("q1", 1, "tpl"), Question("q2", 2, "")>>

TemplateIds == {question_list_template[i].id : i \in DOMAIN question_list_template}

(***************************************************************************)
(* merge_updates                                                           *)
(***************************************************************************)
\* A merge that fills in the patch's fields over the old entry instead of
\* replacing the entry.
PutPatch_field_merge(keys, slots, uq) ==
    [i \in DOMAIN slots |->
        IF keys[i] = uq.id
        THEN [uq EXCEPT
                 !.answer = IF @ = "" THEN slots[i].answer ELSE @,
                 !.summary = IF @ = "" THEN slots[i].summary ELSE @,
                 !.summary_template = IF @ = "" THEN slots[i].summary_template ELSE @]
        ELSE slots[i]]

\* qmap[uq["id"]] = uq for one patch.  qmap is keyed by the ids of the list
\* as it was when the merge began (keys); a dict keeps its keys in
\* insertion order, so slot i of the values stays the slot of keys[i].
PutPatch(keys, slots, uq) ==
    [i \in DOMAIN slots |-> IF keys[i] = uq.id THEN uq ELSE slots[i]]

\* A merge without the `in qmap` test: an unknown id becomes a new key.
RECURSIVE ApplyUpdates_insert_unknown(_, _, _)
ApplyUpdates_insert_unknown(keys, slots, updates) ==
    IF updates = <<>> THEN slots
    ELSE LET uq == Head(updates)
             known == \E i \in DOMAIN keys : keys[i] = uq.id
         IN IF known
            THEN ApplyUpdates_insert_unknown(
                     keys,
                     [i \in DOMAIN slots |-> IF keys[i] = uq.id THEN uq ELSE slots[i]],
                     Tail(updates))
            ELSE ApplyUpdates_insert_unknown(
                     Append(keys, uq.id), Append(slots, uq), Tail(updates))

\* The for loop over updated_questions: a patch whose id is no key of qmap
\* (an unknown id, or no id at all) is passed over.
RECURSIVE ApplyUpdates(_, _, _)
ApplyUpdates(keys, slots, updates) ==
    IF updates = <<>> THEN slots
    ELSE LET uq == Head(updates)
             known == \E i \in DOMAIN keys : keys[i] = uq.id
         IN ApplyUpdates(keys,
                         IF known THEN PutPatch(keys, slots, uq) ELSE slots,
                         Tail(updates))

\* Insert q behind every entry whose position is <= its own.
RECURSIVE InsertByPosition(_, _)
InsertByPosition(s, q) ==
    IF s = <<>> THEN <<q>>
    ELSE IF s[Len(s)].position <= q.position THEN Append(s, q)
    ELSE Append(InsertByPosition(SubSeq(s, 1, Len(s) - 1), q), s[Len(s)])

\* A merge that rebuilds the list from qmap.values() without sorting.
SortByPosition_keep_order(s) == s

\* sorted(values, key=lambda x: x["position"]): a stable sort.
RECURSIVE SortByPosition(_)
SortByPosition(s) ==
    IF s = <<>> THEN <<>>
    ELSE InsertByPosition(SortByPosition(SubSeq(s, 1, Len(s) - 1)), s[Len(s)])

\* A merge without the `if not updated_questions: return` guard: the for
\* loop over None raises TypeError.
merge_updates_without_guard(list, updates) ==
    IF updates = <<>> THEN [raised |-> TRUE, list |-> list]
    ELSE LET keys == [i \in DOMAIN list |-> list[i].id]
             slots == ApplyUpdates(keys, list, updates)
         IN IF \E i \in DOMAIN slots : slots[i].position = NoPosition
            THEN [raised |-> TRUE, list |-> list]
            ELSE [raised |-> FALSE, list |-> SortByPosition(slots)]

\* A merge that reads uq["id"] where the code reads uq.get("id"): a patch
\* without id raises KeyError.
merge_updates_strict_id(list, updates) ==
    IF updates = <<>> THEN [raised |-> FALSE, list |-> list]
    ELSE LET keys == [i \in DOMAIN list |-> list[i].id]
             slots == ApplyUpdates(keys, list, updates)
         IN IF \/ \E i \in DOMAIN slots : slots[i].position = NoPosition
               \/ \E k \in DOMAIN updates : updates[k].id = NoId
            THEN [raised |-> TRUE, list |-> list]
            ELSE [raised |-> FALSE, list |-> SortByPosition(slots)]

\* merge_updates(updated_questions) on the list `list`.  raised: the sort
\* key x["position"] raised KeyError, and the assignment to
\* st.session_state.question_list never happened.
merge_updates(list, updates) ==
    IF updates = <<>> THEN [raised |-> FALSE, list |-> list]
    ELSE LET keys == [i \in DOMAIN list |-> list[i].id]
             slots == ApplyUpdates(keys, list, updates)
         IN IF \E i \in DOMAIN slots : slots[i].position = NoPosition
            THEN [raised |-> TRUE, list |-> list]
            ELSE [raised |-> FALSE, list |-> SortByPosition(slots)]

(***************************************************************************)
(* compute_progress                                                        *)
(***************************************************************************)
IsCompleted(q) == q.status = "completed"

\* q.get("status") == "pending" and not q.get("answer")
IsOpen(q) == q.status = "pending" /\ q.answer = ""

\* A progress that takes the last open question of the list.
NextOpenIndex_last(list) ==
    IF \E i \in DOMAIN list : list[i].status = "pending" /\ list[i].answer = ""
    THEN CHOOSE i \in DOMAIN list :
            /\ list[i].status = "pending" /\ list[i].answer = ""
            /\ \A j \in (i + 1)..Len(list) :
                  ~(list[j].status = "pending" /\ list[j].answer = "")
    ELSE 0

\* Index of the first open question in list order, 0 when there is none:
\* next((q for q in question_list if ...), None).
NextOpenIndex(list) ==
    IF \E i \in DOMAIN list : IsOpen(list[i])
    THEN CHOOSE i \in DOMAIN list :
            IsOpen(list[i]) /\ \A j \in 1..(i - 1) : ~IsOpen(list[j])
    ELSE 0

compute_progress(list) ==
    [total |-> Len(list),
     done |-> Cardinality({i \in DOMAIN list : IsCompleted(list[i])}),
     next_q |-> NextOpenIndex(list)]

\* next_q["id"] if next_q else None
PendingId(list) ==
    LET n == compute_progress(list).next_q
    IN IF n = 0 THEN NoId ELSE list[n].id

(***************************************************************************)
(* send_to_gemini                                                          *)
(***************************************************************************)
\* What one call of the model transport comes to, after coerce_json:
\*   transport_error  generate_content raised
\*   undecodable      coerce_json raised and the text holds no "answer"
\*   salvaged         coerce_json raised, the answer was cut out of the text
\*   not_a_dict       the text is valid JSON but no object
\*   json             the text decoded to an object (a dict)
\* rendered is what the summary template of the current question renders to
\* with the reply's "fields" ("" when rendering fails or gives nothing).
Reply(kind, answer, uqs, ql, summary, rendered) ==
    [kind |-> kind, answer |-> answer, updated_questions |-> uqs,
     question_list |-> ql, summary |-> summary, rendered |-> rendered]

OutOf(reply) ==
    [answer |-> reply.answer, updated_questions |-> reply.updated_questions,
     question_list |-> reply.question_list, summary |-> reply.summary]

NoOut == [answer |-> "", updated_questions |-> <<>>, question_list |-> <<>>,
          summary |-> ""]

\* for q in question_list: if q["id"] == id: q["summary"] = s; break
WriteSummary(list, id, s) ==
    IF \E i \in DOMAIN list : list[i].id = id
    THEN LET k == CHOOSE i \in DOMAIN list :
                     list[i].id = id /\ \A j \in 1..(i - 1) : list[j].id # id
         IN [list EXCEPT ![k].summary = s]
    ELSE list

\* The summary block of send_to_gemini (the inner try): the list it leaves.
\* The first patch of updated_questions names the current question (a
\* patch without "id" raises KeyError, which the block swallows); without
\* patches it is the next open question.
RenderSummary(list, reply) ==
    LET uqs == reply.updated_questions
        from_patch == uqs # <<>>
        n == compute_progress(list).next_q
        in_list(id) == \E i \in DOMAIN list : list[i].id = id
        cur == IF from_patch
               THEN IF in_list(uqs[1].id)
                    THEN list[CHOOSE i \in DOMAIN list : list[i].id = uqs[1].id]
                    ELSE uqs[1]
               ELSE list[n]
        rendered == IF cur.summary_template = "" THEN "" ELSE reply.rendered
    IN  IF from_patch /\ uqs[1].id = NoId THEN list
        ELSE IF ~from_patch /\ n = 0 THEN list
        ELSE IF rendered # "" THEN WriteSummary(list, cur.id, rendered)
        ELSE IF reply.summary # "" THEN WriteSummary(list, cur.id, reply.summary)
        ELSE list

\* A send_to_gemini that writes the reply's summary on the next open
\* question before it finds the text undecodable.
send_to_gemini_write_before_raise(list, reply) ==
    CASE reply.kind = "transport_error" ->
            [raised |-> TRUE, is_dict |-> FALSE, out |-> NoOut, list |-> list]
      [] reply.kind = "undecodable" ->
            [raised |-> TRUE, is_dict |-> FALSE, out |-> NoOut,
             list |-> WriteSummary(list, PendingId(list), "partial")]
      [] reply.kind = "salvaged" ->
            [raised |-> FALSE, is_dict |-> TRUE,
             out |-> [NoOut EXCEPT !.answer = reply.answer], list |-> list]
      [] reply.kind = "not_a_dict" ->
            [raised |-> FALSE, is_dict |-> FALSE, out |-> NoOut, list |-> list]
      [] OTHER ->
            [raised |-> FALSE, is_dict |-> TRUE, out |-> OutOf(reply),
             list |-> RenderSummary(list, reply)]

\* send_to_gemini(user_input) with the session's list `list`.
\*   raised   it raised (transport error, or ValueError: nothing to salvage)
\*   is_dict  the value returned is a dict
\*   list     st.session_state.question_list when it returns or raises
send_to_gemini(list, reply) ==
    CASE reply.kind = "transport_error" ->
            [raised |-> TRUE, is_dict |-> FALSE, out |-> NoOut, list |-> list]
      [] reply.kind = "undecodable" ->
            [raised |-> TRUE, is_dict |-> FALSE, out |-> NoOut, list |-> list]
      [] reply.kind = "salvaged" ->
            [raised |-> FALSE, is_dict |-> TRUE,
             out |-> [NoOut EXCEPT !.answer = reply.answer], list |-> list]
      [] reply.kind = "not_a_dict" ->
            [raised |-> FALSE, is_dict |-> FALSE, out |-> NoOut, list |-> list]
      [] OTHER ->
            [raised |-> FALSE, is_dict |-> TRUE, out |-> OutOf(reply),
             list |-> RenderSummary(list, reply)]

(***************************************************************************)
(* The auto-fix at the end of the chat input handler                       *)
(***************************************************************************)
\* An auto-fix that marks the question completed and forgets the answer.
FixQuestion_no_backfill(q, user_text, out) ==
    [q EXCEPT !.status = "completed"]

\* One question, once it is found to be the previously pending one and
\* not completed.
FixQuestion(q, user_text, out) ==
    [q EXCEPT !.status = "completed",
              !.answer = IF q.answer = "" THEN user_text ELSE q.answer,
              !.summary = IF q.summary = "" /\ out.summary # ""
                          THEN out.summary ELSE q.summary]

\* An auto-fix without the previous_pending_id != new_pending_id test.
auto_fix_without_difference_test(list, previous_pending_id, new_pending_id, user_text, out) ==
    LET hit(i) == list[i].id = previous_pending_id /\ ~IsCompleted(list[i])
    IN  IF previous_pending_id # NoId /\ new_pending_id # NoId
           /\ \E i \in DOMAIN list : hit(i)
        THEN LET k == CHOOSE i \in DOMAIN list :
                         hit(i) /\ \A j \in 1..(i - 1) : ~hit(j)
             IN [list EXCEPT ![k] = FixQuestion(list[k], user_text, out)]
        ELSE list

\* if previous_pending_id and new_pending_id and they differ: fix the first
\* question with that id which is not completed.
auto_fix(list, previous_pending_id, new_pending_id, user_text, out) ==
    LET hit(i) == list[i].id = previous_pending_id /\ ~IsCompleted(list[i])
    IN  IF previous_pending_id # NoId /\ new_pending_id # NoId
           /\ previous_pending_id # new_pending_id
           /\ \E i \in DOMAIN list : hit(i)
        THEN LET k == CHOOSE i \in DOMAIN list :
                         hit(i) /\ \A j \in 1..(i - 1) : ~hit(j)
             IN [list EXCEPT ![k] = FixQuestion(list[k], user_text, out)]
        ELSE list

\* out.get("updated_questions") or out.get("question_list")
UpdatesOf(out) ==
    IF out.updated_questions # <<>> THEN out.updated_questions
    ELSE out.question_list

(***************************************************************************)
(* The response decoder.  A text is a sequence of characters; a character  *)
(* is written as a string: "DQ" the straight double quote, "SQ" the        *)
(* straight single quote, "LDQ" "RDQ" "LSQ" "RSQ" the typographic quotes   *)
(* U+201C U+201D U+2018 U+2019, "BS" the backslash, "NL" "CR" "TAB" "SP"   *)
(* newline, carriage return, tab and space, "BOM" U+FEFF.  "u201c" ...     *)
(* stand for the four hex digits after \u, and a word such as "answer"     *)
(* for its run of letters.                                                 *)
(***************************************************************************)
Whitespace == {"SP", "NL", "CR", "TAB"}

\* Characters json.loads refuses unescaped inside a string (strict mode).
ControlChars == {"NL", "CR", "TAB"}

\* JSON values: a string (s), an object (m: its <<key, value>> pairs in
\* order), an array (m: its elements) or an integer (s: its digits).
JStr(s) == [t |-> "str", s |-> s, m |-> <<>>]
JNum(s) == [t |-> "num", s |-> s, m |-> <<>>]
JObj(m) == [t |-> "obj", s |-> <<>>, m |-> m]
JArr(m) == [t |-> "arr", s |-> <<>>, m |-> m]

RECURSIVE Concat(_)
Concat(ss) == IF ss = <<>> THEN <<>> ELSE Head(ss) \o Concat(Tail(ss))

\* json.dumps of one character of a string.
EscapeChar(c, ensure_ascii) ==
    CASE c = "DQ" -> <<"BS", "DQ">>
      [] c = "BS" -> <<"BS", "BS">>
      [] c = "NL" -> <<"BS", "n">>
      [] c = "CR" -> <<"BS", "r">>
      [] c = "TAB" -> <<"BS", "t">>
      [] c = "LDQ" /\ ensure_ascii -> <<"BS", "u201c">>
      [] c = "RDQ" /\ ensure_ascii -> <<"BS", "u201d">>
      [] c = "LSQ" /\ ensure_ascii -> <<"BS", "u2018">>
      [] c = "RSQ" /\ ensure_ascii -> <<"BS", "u2019">>
      [] OTHER -> <<c>>

DumpString(s, ensure_ascii) ==
    <<"DQ">> \o Concat([i \in DOMAIN s |-> EscapeChar(s[i], ensure_ascii)]) \o <<"DQ">>

\* Items joined by ", ".
RECURSIVE JoinItems(_)
JoinItems(items) ==
    IF items = <<>> THEN <<>>
    ELSE IF Len(items) = 1 THEN items[1]
    ELSE items[1] \o <<",", "SP">> \o JoinItems(Tail(items))

\* json.dumps(v, ensure_ascii=...) with the default separators.
RECURSIVE json_dumps(_, _)
json_dumps(v, ensure_ascii) ==
    CASE v.t = "str" -> DumpString(v.s, ensure_ascii)
      [] v.t = "num" -> v.s
      [] v.t = "obj" ->
            <<"{">> \o JoinItems([i \in DOMAIN v.m |->
                          DumpString(v.m[i][1], ensure_ascii) \o <<":", "SP">>
                              \o json_dumps(v.m[i][2], ensure_ascii)]) \o <<"}">>
      [] OTHER ->
            <<"[">> \o JoinItems([i \in DOMAIN v.m |-> json_dumps(v.m[i], ensure_ascii)])
                    \o <<"]">>

\* What json.loads makes of the character after a backslash.
Unescapes ==
    [DQ |-> "DQ", BS |-> "BS", n |-> "NL", r |-> "CR", t |-> "TAB",
     u201c |-> "LDQ", u201d |-> "RDQ", u2018 |-> "LSQ", u2019 |-> "RSQ"]

ParseFail == [ok |-> FALSE, v |-> JStr(<<>>), next |-> 0]

Parsed(v, next) == [ok |-> TRUE, v |-> v, next |-> next]

RECURSIVE SkipWs(_, _)
SkipWs(t, i) ==
    IF i <= Len(t) /\ t[i] \in Whitespace THEN SkipWs(t, i + 1) ELSE i

\* The body of a string, from the character after its opening quote.
RECURSIVE ScanString(_, _, _)
ScanString(t, j, acc) ==
    IF j > Len(t) THEN ParseFail
    ELSE IF t[j] = "DQ" THEN Parsed(JStr(acc), j + 1)
    ELSE IF t[j] = "BS"
         THEN IF j + 1 <= Len(t) /\ t[j + 1] \in DOMAIN Unescapes
              THEN ScanString(t, j + 2, Append(acc, Unescapes[t[j + 1]]))
              ELSE ParseFail
    ELSE IF t[j] \in ControlChars THEN ParseFail
    ELSE ScanString(t, j + 1, Append(acc, t[j]))

DigitChars == <<"0", "1", "2", "3", "4", "5", "6", "7", "8", "9">>

IsDigit(c) == \E d \in DOMAIN DigitChars : DigitChars[d] = c

\* A run of digits from position j.
RECURSIVE ScanNumber(_, _, _)
ScanNumber(t, j, acc) ==
    IF j <= Len(t) /\ IsDigit(t[j]) THEN ScanNumber(t, j + 1, Append(acc, t[j]))
    ELSE Parsed(JNum(acc), j)

RECURSIVE ParseValue(_, _)
RECURSIVE ParseMembers(_, _, _, _)
RECURSIVE ParseElements(_, _, _, _)

\* The members of an object from position i (whitespace skipped); first:
\* nothing was read yet, so the object may close at once.
ParseMembers(t, i, acc, first) ==
    IF i > Len(t) THEN ParseFail
    ELSE IF first /\ t[i] = "}" THEN Parsed(JObj(acc), i + 1)
    ELSE IF t[i] # "DQ" THEN ParseFail
    ELSE LET k == ScanString(t, i + 1, <<>>)
             colon == SkipWs(t, k.next)
             v == ParseValue(t, SkipWs(t, colon + 1))
             after == SkipWs(t, v.next)
             more == Append(acc, <<k.v.s, v.v>>)
         IN  IF ~k.ok \/ colon > Len(t) THEN ParseFail
             ELSE IF t[colon] # ":" THEN ParseFail
             ELSE IF ~v.ok \/ after > Len(t) THEN ParseFail
             ELSE IF t[after] = "," THEN ParseMembers(t, SkipWs(t, after + 1), more, FALSE)
             ELSE IF t[after] = "}" THEN Parsed(JObj(more), after + 1)
             ELSE ParseFail

ParseElements(t, i, acc, first) ==
    IF i > Len(t) THEN ParseFail
    ELSE IF first /\ t[i] = "]" THEN Parsed(JArr(acc), i + 1)
    ELSE LET v == ParseValue(t, i)
             after == SkipWs(t, v.next)
             more == Append(acc, v.v)
         IN  IF ~v.ok \/ after > Len(t) THEN ParseFail
             ELSE IF t[after] = "," THEN ParseElements(t, SkipWs(t, after + 1), more, FALSE)
             ELSE IF t[after] = "]" THEN Parsed(JArr(more), after + 1)
             ELSE ParseFail

ParseValue(t, i) ==
    IF i > Len(t) THEN ParseFail
    ELSE IF t[i] = "DQ" THEN ScanString(t, i + 1, <<>>)
    ELSE IF t[i] = "{" THEN ParseMembers(t, SkipWs(t, i + 1), <<>>, TRUE)
    ELSE IF t[i] = "[" THEN ParseElements(t, SkipWs(t, i + 1), <<>>, TRUE)
    ELSE IF IsDigit(t[i]) THEN ScanNumber(t, i, <<>>)
    ELSE ParseFail

\* json.loads(t): one value, whitespace around it, nothing else.
json_loads(t) ==
    LET v == ParseValue(t, SkipWs(t, 1))
    IN IF v.ok /\ SkipWs(t, v.next) = Len(t) + 1 THEN v ELSE ParseFail

\* _extract_balanced_json: the scan from the first "{".
RECURSIVE ScanBraces(_, _, _, _)
ScanBraces(t, start, i, depth) ==
    IF i > Len(t) THEN [found |-> FALSE, core |-> <<>>]
    ELSE IF t[i] = "{" THEN ScanBraces(t, start, i + 1, depth + 1)
    ELSE IF t[i] = "}"
         THEN IF depth - 1 = 0 THEN [found |-> TRUE, core |-> SubSeq(t, start, i)]
              ELSE ScanBraces(t, start, i + 1, depth - 1)
    ELSE ScanBraces(t, start, i + 1, depth)

_extract_balanced_json(t) ==
    IF \E i \in DOMAIN t : t[i] = "{"
    THEN LET start == CHOOSE i \in DOMAIN t : t[i] = "{" /\ \A j \in 1..(i - 1) : t[j] # "{"
         IN ScanBraces(t, start, start, 0)
    ELSE [found |-> FALSE, core |-> <<>>]

_normalize_quotes(s) ==
    [i \in DOMAIN s |->
        CASE s[i] \in {"LDQ", "RDQ"} -> "DQ"
          [] s[i] \in {"LSQ", "RSQ"} -> "SQ"
          [] OTHER -> s[i]]

\* raw_text.lstrip('\ufeff').strip()
RECURSIVE LStrip(_, _)
LStrip(s, chars) ==
    IF s # <<>> /\ Head(s) \in chars THEN LStrip(Tail(s), chars) ELSE s

RECURSIVE RStrip(_, _)
RStrip(s, chars) ==
    IF s # <<>> /\ s[Len(s)] \in chars THEN RStrip(SubSeq(s, 1, Len(s) - 1), chars) ELSE s

Strip(raw) == RStrip(LStrip(LStrip(raw, {"BOM"}), Whitespace), Whitespace)

\* core.replace('\r', '\\r').replace('\n', '\\n')
EscapeNewlines(s) ==
    Concat([i \in DOMAIN s |->
        CASE s[i] = "CR" -> <<"BS", "r">>
          [] s[i] = "NL" -> <<"BS", "n">>
          [] OTHER -> <<s[i]>>])

\* coerce_json(raw_text): the value returned, or raised.
coerce_json(raw) ==
    LET s == _normalize_quotes(Strip(raw))
        direct == json_loads(s)
        core == _extract_balanced_json(s)
        second == json_loads(core.core)
        third == json_loads(EscapeNewlines(core.core))
        value(v) == [raised |-> FALSE, value |-> v]
        raise == [raised |-> TRUE, value |-> JObj(<<>>)]
    IN  IF raw = <<>> THEN value(JObj(<<>>))
        ELSE IF direct.ok THEN value(direct.v)
        ELSE IF core.found
             THEN IF second.ok THEN value(second.v)
                  ELSE IF third.ok THEN value(third.v) ELSE raise
        ELSE raise

(***************************************************************************)
(* Inputs: what the user types and what the model transport returns.       *)
(***************************************************************************)
UserTexts == {"u1", "u2"}

PatchIds == TemplateIds \cup {"qx", NoId}

\* A patch has no position (0), a position of the template, or one beyond.
Positions == 0..(Len(question_list_template) + 1)

Patches ==
    [id : PatchIds, position : Positions, status : {"pending", "completed"},
     answer : {"", "a"}, summary : {""}, summary_template : {""}]

\* Sequences over S of length at most n.
RECURSIVE SeqsUpTo(_, _)
SeqsUpTo(S, n) ==
    IF n = 0 THEN {<<>>}
    ELSE LET shorter == SeqsUpTo(S, n - 1)
         IN shorter \cup {Append(u, p) : u \in {v \in shorter : Len(v) = n - 1}, p \in S}

\* In the session a reply carries at most one patch; longer sequences
\* (duplicate ids, several questions at once) are the merge specification's.
UpdateSeqs == {<<>>} \cup {<<p>> : p \in Patches}

\* Patches of the merge specification: merge_updates reads id and position
\* only, so the rest of a patch is one body, unlike the template's.
MergePatches == {p \in Patches : p.status = "completed" /\ p.answer = "a"}

MergeUpdateSeqs == SeqsUpTo(MergePatches, MaxMergeUpdates)

\* A decoded object carries updated_questions, or else question_list; its
\* summary and its fields (what the template renders to) are optional.
Replies ==
    {Reply(k, "", <<>>, <<>>, "", "") : k \in {"transport_error", "undecodable", "not_a_dict"}}
    \cup {Reply("salvaged", "hi", <<>>, <<>>, "", "")}
    \cup {Reply("json", "hi", u, <<>>, sr[1], sr[2]) :
            u \in UpdateSeqs, sr \in {<<"", "">>, <<"os", "">>, <<"", "rs">>}}
    \cup {Reply("json", "hi", <<>>, u, "", "") : u \in UpdateSeqs \ {<<>>}}

(***************************************************************************)
(* Inputs of the decoder: the raw texts a reply may be.                    *)
(***************************************************************************)
AnswerChars == {"a", "DQ", "SQ", "BS", "NL", "{", "}", "LDQ", "RDQ", "LSQ", "RSQ"}

AnswerStrings == SeqsUpTo(AnswerChars, MaxAnswerLen)

\* A Decoded Reply as a JSON object: answer, and optionally
\* updated_questions or summary.
DecodedReply(answer, shape) ==
    JObj(<< <<(<<"answer">>), JStr(answer)>> >>
         \o (CASE shape = "patches" ->
                    << <<(<<"updated_questions">>),
                         JArr(<<JObj(<< <<(<<"id">>), JStr(<<"q1">>)>> >>)>>)>> >>
               [] shape = "summary" -> << <<(<<"summary">>), JStr(<<"a">>)>> >>
               [] OTHER -> <<>>))

DecodedReplies ==
    {DecodedReply(a, shape) : a \in AnswerStrings, shape \in {"answer", "patches", "summary"}}

Prose == <<"a", "SP">>

\* kind "json": the serialization of x between prefix and suffix;
\* kind "cut": the serialization without its last character (a reply cut
\* short); kind "prose": text without any brace.
DecoderInput(kind, x, ensure_ascii, prefix, suffix) ==
    [kind |-> kind, x |-> x, ensure_ascii |-> ensure_ascii,
     prefix |-> prefix, suffix |-> suffix]

NoInput == DecoderInput("none", JObj(<<>>), FALSE, <<>>, <<>>)

DecoderInputs ==
    {DecoderInput("json", x, e, p, u) :
        x \in DecodedReplies, e \in BOOLEAN, p \in {<<>>, Prose}, u \in {<<>>, Prose}}
    \cup {DecoderInput("cut", x, e, <<>>, <<>>) : x \in DecodedReplies, e \in BOOLEAN}
    \cup {DecoderInput("prose", JObj(<<>>), FALSE, Prose, Prose)}

TextOf(input) ==
    LET dumped == json_dumps(input.x, input.ensure_ascii)
    IN CASE input.kind = "json" -> input.prefix \o dumped \o input.suffix
         [] input.kind = "cut" -> SubSeq(dumped, 1, Len(dumped) - 1)
         [] OTHER -> input.prefix \o input.suffix

NoDecode ==
    [op |-> "none", input |-> NoInput, raised |-> FALSE, value |-> JObj(<<>>),
     found |-> FALSE, core |-> <<>>]

(***************************************************************************)
(* The deep copy of the template:                                          *)
(* json.loads(json.dumps(question_list_template, ensure_ascii=False)).     *)
(***************************************************************************)
\* str(n) for an integer n >= 0, and int(digits).
RECURSIVE DigitsOf(_)
DigitsOf(n) ==
    IF n < 10 THEN <<DigitChars[n + 1]>>
    ELSE Append(DigitsOf(n \div 10), DigitChars[(n % 10) + 1])

RECURSIVE NumberOf(_)
NumberOf(ds) ==
    IF ds = <<>> THEN 0
    ELSE 10 * NumberOf(SubSeq(ds, 1, Len(ds) - 1))
           + (CHOOSE d \in 0..9 : DigitChars[d + 1] = ds[Len(ds)])

\* A string of the session (one word, or empty) as JSON text and back.
WordToJson(w) == JStr(IF w = "" THEN <<>> ELSE <<w>>)

WordFromJson(v) == IF v.s = <<>> THEN "" ELSE v.s[1]

\* One question as the JSON object json.dumps writes, keys in dict order.
QuestionToJson(q) ==
    JObj(<< <<(<<"id">>), WordToJson(q.id)>>,
            <<(<<"position">>), JNum(DigitsOf(q.position))>>,
            <<(<<"status">>), WordToJson(q.status)>>,
            <<(<<"answer">>), WordToJson(q.answer)>>,
            <<(<<"summary">>), WordToJson(q.summary)>>,
            <<(<<"summary_template">>), WordToJson(q.summary_template)>> >>)

\* obj[key] of a parsed object: the last member with that key.
Member(obj, key) ==
    LET at == {i \in DOMAIN obj.m : obj.m[i][1] = <<key>>}
    IN obj.m[CHOOSE i \in at : \A j \in at : j <= i][2]

QuestionFromJson(v) ==
    [id |-> WordFromJson(Member(v, "id")),
     position |-> NumberOf(Member(v, "position").s),
     status |-> WordFromJson(Member(v, "status")),
     answer |-> WordFromJson(Member(v, "answer")),
     summary |-> WordFromJson(Member(v, "summary")),
     summary_template |-> WordFromJson(Member(v, "summary_template"))]

DeepCopy(list) ==
    LET dumped == json_dumps(JArr([i \in DOMAIN list |-> QuestionToJson(list[i])]), FALSE)
        loaded == json_loads(dumped).v
    IN [i \in DOMAIN loaded.m |-> QuestionFromJson(loaded.m[i])]

\* The list lines 81 and 979 put into the session.
fresh_question_list == DeepCopy(question_list_template)

(***************************************************************************)
(* The session: state after construction, and one action per handler.      *)
(***************************************************************************)
Turn(role, content) == [role |-> role, content |-> content]

NoTurn ==
    [op |-> "none", outcome |-> "none", reply_kind |-> "none", user_text |-> "",
     out |-> NoOut, updates |-> <<>>, previous_pending_id |-> NoId,
     new_pending_id |-> NoId, history0 |-> <<>>, question_list0 |-> <<>>,
     sent |-> <<>>, merged |-> <<>>]

\* Lines 79-87: the first script run of a session, about to reach the
\* auto-initialize block.
Init ==
    /\ question_list = fresh_question_list
    /\ history = <<>>
    /\ initialized = FALSE
    /\ pc = "run"
    /\ turn = NoTurn
    /\ calls = 0
    /\ text = <<>>
    /\ decoded = NoDecode

\* What a handler that called the model leaves behind.
Ran(op, outcome, user_text, reply, r, m, prev, new) ==
    [op |-> op, outcome |-> outcome, reply_kind |-> reply.kind,
     user_text |-> user_text, out |-> r.out, updates |-> UpdatesOf(r.out),
     previous_pending_id |-> prev, new_pending_id |-> new,
     history0 |-> history, question_list0 |-> question_list,
     sent |-> r.list, merged |-> m.list]

\* The auto-initialize block (lines 988-994) of a script run.
InitBlock(reply) ==
    LET r == send_to_gemini(question_list, reply)
        m == merge_updates(r.list, UpdatesOf(r.out))
        h1 == Append(history, Turn("user", Greeting))
        h2 == Append(h1, Turn("assistant", r.out.answer))
        outcome == IF r.raised THEN "model_error"
                   ELSE IF ~r.is_dict THEN "not_a_dict"
                   ELSE IF m.raised THEN "merge_error" ELSE "ok"
    IN  /\ pc = "run"
        /\ ~initialized
        /\ Len(history) + 2 <= MaxHistory
        /\ history' = CASE outcome = "model_error" -> history
                        [] outcome = "not_a_dict" -> h1
                        [] OTHER -> h2
        /\ question_list' = IF outcome = "ok" THEN m.list ELSE r.list
        /\ initialized' = (outcome = "ok")
        /\ turn' = Ran("init", outcome, Greeting, reply, r, m, NoId, NoId)
        /\ calls' = calls + 1
        /\ pc' = "end"
        /\ UNCHANGED <<text, decoded>>

\* The chat input handler (lines 1007-1052) for one submitted message.
ChatTurn(user_text, reply) ==
    LET h1 == Append(history, Turn("user", user_text))
        prev == PendingId(question_list)
        r == send_to_gemini(question_list, reply)
        h2 == Append(h1, Turn("assistant", r.out.answer))
        m == merge_updates(r.list, UpdatesOf(r.out))
        new == PendingId(m.list)
        outcome == IF r.raised THEN "model_error"
                   ELSE IF ~r.is_dict THEN "not_a_dict"
                   ELSE IF m.raised THEN "merge_error" ELSE "ok"
    IN  /\ pc = "idle"
        /\ initialized
        /\ Len(history) + 2 <= MaxHistory
        /\ history' = IF outcome \in {"model_error", "not_a_dict"} THEN h1 ELSE h2
        /\ question_list' =
              IF outcome = "ok"
              THEN auto_fix(m.list, prev, new, user_text, r.out)
              ELSE r.list
        /\ turn' = Ran("chat", outcome, user_text, reply, r, m, prev,
                       IF outcome = "ok" THEN new ELSE NoId)
        /\ calls' = 1
        /\ pc' = "end"
        /\ UNCHANGED <<initialized, text, decoded>>

\* What the reset handler leaves behind: whether the session it reset had
\* a transcript and a list other than the template.
ResetRan ==
    [NoTurn EXCEPT !.op = "reset",
                   !.outcome = IF history # <<>> /\ question_list # question_list_template
                               THEN "restored" ELSE "ok"]

\* A reset that empties the transcript and keeps the questions.
Reset_keeps_questions ==
    /\ pc = "idle"
    /\ history' = <<>>
    /\ initialized' = FALSE
    /\ turn' = ResetRan
    /\ calls' = 0
    /\ pc' = "run"
    /\ UNCHANGED <<question_list, text, decoded>>

\* The reset button (lines 977-981); st.rerun() starts the next script run.
Reset ==
    /\ pc = "idle"
    /\ history' = <<>>
    /\ question_list' = fresh_question_list
    /\ initialized' = FALSE
    /\ turn' = ResetRan
    /\ calls' = 0
    /\ pc' = "run"
    /\ UNCHANGED <<text, decoded>>

\* An export that drops the newest turn from the transcript it wrote out.
ButtonPress_drops_last_turn ==
    /\ pc = "idle"
    /\ history' = IF history = <<>> THEN history
                  ELSE SubSeq(history, 1, Len(history) - 1)
    /\ calls' = 0
    /\ pc' = "run"
    /\ UNCHANGED <<question_list, initialized, turn, text, decoded>>

\* Any other button (save, export, PDF download): the script runs again and
\* the session state is only read.
ButtonPress ==
    /\ pc = "idle"
    /\ calls' = 0
    /\ pc' = "run"
    /\ UNCHANGED <<question_list, history, initialized, turn, text, decoded>>

\* A script run of an initialized session passes the auto-initialize block,
\* renders the transcript and waits at st.chat_input.
Render ==
    /\ pc = "run"
    /\ initialized
    /\ pc' = "idle"
    /\ UNCHANGED <<question_list, history, initialized, turn, calls, text, decoded>>

\* A script that runs again by itself after whatever the handler did.
EndScriptRun_rerun_always ==
    /\ pc = "end"
    /\ turn' = NoTurn
    /\ pc' = "run"
    /\ UNCHANGED <<question_list, history, initialized, calls, text, decoded>>

\* The script run of a handler ends (st.rerun(), st.stop(), an uncaught
\* exception, or the end of the script): its locals are gone.
EndScriptRun ==
    /\ pc = "end"
    /\ turn' = NoTurn
    /\ pc' = IF turn.op = "chat" /\ turn.outcome = "ok" THEN "run" ELSE "idle"
    /\ UNCHANGED <<question_list, history, initialized, calls, text, decoded>>

Next ==
    \/ \E reply \in Replies : InitBlock(reply)
    \/ \E user_text \in UserTexts, reply \in Replies : ChatTurn(user_text, reply)
    \/ Reset
    \/ ButtonPress
    \/ Render
    \/ EndScriptRun

Spec == Init /\ [][Next]_vars

(***************************************************************************)
(* The merge specification: merge_updates alone, called again and again    *)
(* on the list it left, with every patch sequence up to MaxMergeUpdates.   *)
(***************************************************************************)
InitMerge ==
    /\ question_list = fresh_question_list
    /\ history = <<>>
    /\ initialized = TRUE
    /\ pc = "idle"
    /\ turn = NoTurn
    /\ calls = 0
    /\ text = <<>>
    /\ decoded = NoDecode

MergeCall(updates) ==
    LET m == merge_updates(question_list, updates)
    IN  /\ pc = "idle"
        /\ question_list' = m.list
        /\ turn' = [NoTurn EXCEPT !.op = "merge",
                                  !.outcome = IF m.raised THEN "merge_error" ELSE "ok",
                                  !.updates = updates,
                                  !.question_list0 = question_list,
                                  !.merged = m.list]
        /\ pc' = "end"
        /\ UNCHANGED <<history, initialized, calls, text, decoded>>

NextMerge ==
    \/ \E updates \in MergeUpdateSeqs : MergeCall(updates)
    \/ EndScriptRun

SpecMerge == InitMerge /\ [][NextMerge]_vars

(***************************************************************************)
(* The decoder specification: every raw text of DecoderInputs, and the     *)
(* two decoder functions applied to it.                                    *)
(***************************************************************************)
InitDecode ==
    /\ question_list = fresh_question_list
    /\ history = <<>>
    /\ initialized = FALSE
    /\ pc = "idle"
    /\ turn = NoTurn
    /\ calls = 0
    /\ \E input \in DecoderInputs :
          /\ text = TextOf(input)
          /\ decoded = [NoDecode EXCEPT !.input = input]

CoerceJson ==
    LET r == coerce_json(text)
    IN  /\ pc = "idle"
        /\ decoded' = [decoded EXCEPT !.op = "coerce_json", !.raised = r.raised,
                                      !.value = r.value]
        /\ pc' = "end"
        /\ UNCHANGED <<question_list, history, initialized, turn, calls, text>>

ExtractBalancedJson ==
    LET r == _extract_balanced_json(text)
    IN  /\ pc = "idle"
        /\ decoded' = [decoded EXCEPT !.op = "extract", !.found = r.found,
                                      !.core = r.core]
        /\ pc' = "end"
        /\ UNCHANGED <<question_list, history, initialized, turn, calls, text>>

NextDecode == CoerceJson \/ ExtractBalancedJson

SpecDecode == InitDecode /\ [][NextDecode]_vars

(***************************************************************************)
(* Properties of the decoder, checked under SpecDecode.                    *)
(***************************************************************************)
\* C9 (the claim as stated): coerce_json of the JSON serialization of a
\* Decoded Reply returns that reply, whatever characters its answer holds.
C9_RoundTrip ==
    (pc = "end" /\ decoded.op = "coerce_json" /\ decoded.input.kind = "json"
        /\ decoded.input.prefix = <<>> /\ decoded.input.suffix = <<>>)
        => (~decoded.raised /\ decoded.value = decoded.input.x)

\* C10 (the claim as stated): from prefix + O + suffix, O the serialization
\* of an object, the prefix without "{" and the whole no valid JSON,
\* _extract_balanced_json returns exactly O; it returns none for a text
\* without "{".
C10_ExtractsEmbeddedObject ==
    (pc = "end" /\ decoded.op = "extract") =>
        /\ (decoded.input.kind = "json" /\ ~json_loads(text).ok)
              => (decoded.found
                    /\ decoded.core = json_dumps(decoded.input.x, decoded.input.ensure_ascii))
        /\ (\A i \in DOMAIN text : text[i] # "{") => ~decoded.found

(***************************************************************************)
(* Properties of merge_updates, checked under SpecMerge.                   *)
(***************************************************************************)
IdsOf(list) == [i \in DOMAIN list |-> list[i].id]

HasEntry(list, id) == \E i \in DOMAIN list : list[i].id = id

EntryOf(list, id) == list[CHOOSE i \in DOMAIN list : list[i].id = id]

\* Index of the last patch of updates that carries id, 0 when none does.
LastPatchFor(updates, id) ==
    IF \E j \in DOMAIN updates : updates[j].id = id
    THEN CHOOSE j \in DOMAIN updates :
            updates[j].id = id /\ \A k \in (j + 1)..Len(updates) : updates[k].id # id
    ELSE 0

IsSortedByPosition(list) ==
    \A i \in 1..(Len(list) - 1) : list[i].position <= list[i + 1].position

MergeReturned == pc = "end" /\ turn.op = "merge" /\ turn.outcome = "ok"

\* C1: after any sequence of merge_updates calls the collection has as many
\* entries as the template and every template id exactly once: no question
\* is lost, inserted or duplicated.
C1_MergeKeepsIds ==
    /\ Len(question_list) = Len(question_list_template)
    /\ \A id \in TemplateIds :
          Cardinality({i \in DOMAIN question_list : question_list[i].id = id}) = 1

\* C1 witness: a second merge of the session returned, called with two
\* patches for the same known id.
C1_Witness ==
    /\ MergeReturned
    /\ turn.question_list0 # question_list_template
    /\ Len(turn.updates) = 2
    /\ turn.updates[1].id = turn.updates[2].id
    /\ turn.updates[1].id \in TemplateIds

\* C5 (the claim as stated): every id has the position after a merge that it
\* had before it, whatever position the patches carry.
C5_PositionsStable ==
    (pc = "end" /\ turn.op = "merge") =>
        \A i \in DOMAIN question_list, j \in DOMAIN turn.question_list0 :
            question_list[i].id = turn.question_list0[j].id
                => question_list[i].position = turn.question_list0[j].position

C8_SortedAfterMerge ==
    (MergeReturned /\ turn.updates # <<>>) => IsSortedByPosition(question_list)

\* C8 witness: the patches carried positions that put the ids in another
\* order than before the merge.
C8_Witness ==
    /\ MergeReturned
    /\ turn.updates # <<>>
    /\ IdsOf(question_list) # IdsOf(turn.question_list0)
    /\ IsSortedByPosition(question_list)

(***************************************************************************)
(* Properties of the session, checked under Spec.                          *)
(***************************************************************************)
ChatFailed == pc = "end" /\ turn.op = "chat" /\ turn.outcome = "model_error"

ChatSucceeded == pc = "end" /\ turn.op = "chat" /\ turn.outcome = "ok"

\* C2 (the claim as stated): after a chat turn whose model call raised
\* (transport failure, or a reply that cannot be decoded or salvaged) the
\* transcript is what it was before the user submitted the message.
C2_FailedTurnKeepsTranscript == ChatFailed => history = turn.history0

\* C3: whenever send_to_gemini raises, in the chat handler or in the
\* auto-initialize block, the Question collection is entry for entry what
\* it was before the turn.
C3_FailedTurnKeepsQuestions ==
    (pc = "end" /\ turn.op \in {"chat", "init"} /\ turn.outcome = "model_error")
        => question_list = turn.question_list0

\* C3 witness: a chat turn on a collection that earlier turns had changed
\* failed because the reply could not be decoded.
C3_Witness ==
    /\ ChatFailed
    /\ turn.reply_kind = "undecodable"
    /\ turn.question_list0 # question_list_template
    /\ question_list = turn.question_list0

\* The turn of C4: a question was pending before the model call, and
\* another (or, with none_too, none) after the merge.
Advanced(none_too) ==
    /\ ChatSucceeded
    /\ turn.previous_pending_id # NoId
    /\ turn.previous_pending_id # turn.new_pending_id
    /\ none_too \/ turn.new_pending_id # NoId

\* The answer C4 expects on the previously pending question: the patch's,
\* or else what the user typed.
ExpectedAnswer ==
    LET mq == EntryOf(turn.merged, turn.previous_pending_id)
    IN IF mq.answer # "" THEN mq.answer ELSE turn.user_text

\* C4 (the claim as stated): when the pending question before the call
\* differs from the one after the merge, also when none is left, the
\* previously pending question is completed with a non-empty answer.
C4_AutoRepairOriginal ==
    Advanced(TRUE) =>
        LET q == EntryOf(question_list, turn.previous_pending_id)
        IN q.status = "completed" /\ q.answer # "" /\ q.answer = ExpectedAnswer

\* C4 (amended): when a question was pending before the call and another
\* question is pending after the merge, the previously pending question is
\* completed; if the merge had not marked it completed its answer is
\* non-empty, the patch's or else the user's input, and if the merge had, the
\* entry is left as merged.
C4_AutoRepair ==
    Advanced(FALSE) =>
        LET q == EntryOf(question_list, turn.previous_pending_id)
            mq == EntryOf(turn.merged, turn.previous_pending_id)
        IN /\ q.status = "completed"
           /\ mq.status # "completed" => (q.answer # "" /\ q.answer = ExpectedAnswer)
           /\ mq.status = "completed" => q = mq

\* C4 witness: the auto-fix backfilled the user's input on a question the
\* merge had left pending.
C4_Witness ==
    /\ Advanced(FALSE)
    /\ EntryOf(turn.merged, turn.previous_pending_id).status = "pending"
    /\ EntryOf(turn.merged, turn.previous_pending_id).answer = ""
    /\ EntryOf(question_list, turn.previous_pending_id).status = "completed"
    /\ EntryOf(question_list, turn.previous_pending_id).answer = turn.user_text

\* C7: in every state of the session compute_progress returns the size of
\* the collection, the number of completed questions, and as next question
\* an open one (pending, no answer) of the smallest position among the open
\* ones, or none when no question is open.
C7_Progress ==
    LET p == compute_progress(question_list)
        open == {i \in DOMAIN question_list :
                    question_list[i].status = "pending" /\ question_list[i].answer = ""}
    IN /\ p.total = Len(question_list)
       /\ p.done = Len(SelectSeq(question_list, LAMBDA q : q.status = "completed"))
       /\ 0 <= p.done /\ p.done <= p.total
       /\ (p.next_q = 0) <=> (open = {})
       /\ p.next_q # 0 =>
             /\ p.next_q \in open
             /\ \A i \in open :
                   question_list[p.next_q].position <= question_list[i].position

\* C7 witness: merges have put q2 before q1, both are open, and q2 with the
\* smaller position is the next question.
C7_Witness ==
    /\ Len(question_list) = 2
    /\ question_list[1].id = "q2"
    /\ question_list[1].position < question_list[2].position
    /\ IsOpen(question_list[1]) /\ IsOpen(question_list[2])
    /\ compute_progress(question_list).next_q = 1

(***************************************************************************)
(* The salvaged reply, the empty merge and the patch without id.           *)
(***************************************************************************)
SalvagedTurn == pc = "end" /\ turn.op \in {"init", "chat"} /\ turn.reply_kind = "salvaged"

\* C11: a turn whose reply could only be salvaged has a decoded reply with
\* the answer alone (no updated_questions, no question_list, no summary);
\* the turn completes: the user turn and an assistant turn with the salvaged
\* answer are appended to the transcript, and the question list is exactly
\* the list before the turn.
C11_SalvagedTurn ==
    SalvagedTurn =>
        /\ turn.outcome = "ok"
        /\ turn.out.answer # ""
        /\ turn.out = [NoOut EXCEPT !.answer = turn.out.answer]
        /\ turn.updates = <<>>
        /\ history = turn.history0 \o <<Turn("user", turn.user_text),
                                         Turn("assistant", turn.out.answer)>>
        /\ question_list = turn.question_list0

\* C11 witness: a salvaged chat turn on a list that has an open question
\* and differs from the template.
C11_Witness ==
    /\ SalvagedTurn
    /\ turn.op = "chat"
    /\ turn.previous_pending_id # NoId
    /\ question_list # question_list_template
    /\ Len(history) = 4

\* C12: merge_updates called without updates (an empty sequence, None, a
\* reply with neither updated_questions nor question_list) returns and
\* leaves the question list as it was, in content and in order.
C12_EmptyMergeIsNoOp ==
    (pc = "end" /\ turn.op = "merge" /\ turn.updates = <<>>) =>
        (turn.outcome = "ok" /\ question_list = turn.question_list0)

\* C12 witness: an empty merge on a list that earlier merges have changed.
C12_Witness ==
    /\ pc = "end" /\ turn.op = "merge" /\ turn.updates = <<>>
    /\ question_list # question_list_template

WithId(updates) == SelectSeq(updates, LAMBDA uq : uq.id # NoId)

\* C13: a patch without id never makes merge_updates raise, and the merge
\* comes to what it would without that patch: the same list, the other
\* patches applied (and the same raise, when another patch causes one).
C13_PatchWithoutIdSkipped ==
    (pc = "end" /\ turn.op = "merge") =>
        LET m == merge_updates(turn.question_list0, WithId(turn.updates))
        IN  /\ m.raised = (turn.outcome = "merge_error")
            /\ m.list = question_list
            /\ (\A k \in DOMAIN turn.updates : turn.updates[k].id = NoId)
                  => turn.outcome = "ok"

\* C13 witness: a merge of a patch without id and a patch that changed the
\* list.
C13_Witness ==
    /\ MergeReturned
    /\ \E k \in DOMAIN turn.updates : turn.updates[k].id = NoId
    /\ \E k \in DOMAIN turn.updates : turn.updates[k].id \in TemplateIds
    /\ question_list # turn.question_list0

(***************************************************************************)
(* The transcript and the reset.                                           *)
(***************************************************************************)
IsPrefix(a, b) == Len(a) <= Len(b) /\ SubSeq(b, 1, Len(a)) = a

JustReset == pc = "run" /\ turn.op = "reset"

\* C14: the transcript is append-only: every step leaves the transcript it
\* found as a prefix of the transcript it leaves (no turn is modified,
\* reordered or removed by a chat turn, a merge, the auto-fix or an
\* export), except the reset, which leaves the empty transcript.
C14_TranscriptAppendOnly ==
    [][IsPrefix(history, history') \/ (JustReset' /\ history' = <<>>)]_vars

\* C14 witness: a chat turn has extended a transcript that already held
\* the initial exchange.
C14_Witness ==
    /\ pc = "end" /\ turn.op = "chat"
    /\ Len(turn.history0) = 2
    /\ Len(history) > Len(turn.history0)
    /\ IsPrefix(turn.history0, history)

C16_ExactlyOneCall == (pc = "idle") => calls = 1

\* C16, amended: a user action results in at most one outbound model call;
\* a handler that called the model called it once; the only user action
\* without a call is a button press other than reset in an initialized
\* session; a failed call is not issued again without a new user action.
C16_AtMostOneCall ==
    /\ calls \in {0, 1}
    /\ (pc = "end" /\ turn.op \in {"init", "chat"}) => calls = 1
    /\ JustReset => calls = 0
    /\ (pc = "idle" /\ calls = 0) => initialized

\* C16 witness: the initial call failed once more, in a script run that a
\* button press started after an earlier initial exchange had failed in
\* the merge: one call for that button press.
C16_Witness ==
    /\ pc = "end" /\ turn.op = "init" /\ turn.outcome = "model_error"
    /\ history # <<>>
    /\ calls = 1

(***************************************************************************)
(* The summary send_to_gemini writes, and the auto-fix.                    *)
(***************************************************************************)
TurnSucceeded == pc = "end" /\ turn.op \in {"init", "chat"} /\ turn.outcome = "ok"

\* The questions send_to_gemini wrote a summary on (turn.sent is the list
\* as the call left it; the write is in place, so the order is the old one).
SummaryWritten ==
    {i \in DOMAIN turn.sent : turn.sent[i].summary # turn.question_list0[i].summary}

\* C17: a summary that send_to_gemini wrote on a question during a
\* successful turn is still that question's summary at the end of the turn,
\* after merge_updates and the auto-fix, also when the question is the one
\* the first entry of updated_questions names.
C17_SummarySurvivesTurn ==
    TurnSucceeded =>
        \A i \in SummaryWritten :
            /\ HasEntry(question_list, turn.sent[i].id)
            /\ EntryOf(question_list, turn.sent[i].id).summary = turn.sent[i].summary

AutoFixFired == ChatSucceeded /\ question_list # turn.merged

\* C18: whenever the auto-fix marks a question completed, the question
\* pending after the merge has a strictly greater position than the
\* question pending before the turn; a turn that re-opens an earlier
\* question never gets the previously pending question marked completed.
C18_AutoFixOnlyForward ==
    AutoFixFired =>
        EntryOf(turn.merged, turn.new_pending_id).position
            > EntryOf(turn.merged, turn.previous_pending_id).position

GreetingTurn == Turn("user", Greeting)

\* C19: between two resets the greeting and the first reply are appended
\* to the transcript exactly once, as its first two entries, also when the
\* initial call or the initial merge raised and the script ran again;
\* initialized is true only after the initial exchange.
C19_InitialExchangeOnce ==
    /\ Cardinality({i \in DOMAIN history : history[i] = GreetingTurn}) <= 1
    /\ history # <<>> => history[1] = GreetingTurn
    /\ initialized => (Len(history) >= 2 /\ history[2].role = "assistant")

\* C20: whenever the session is idle the transcript has even length and
\* its roles alternate user, assistant, user, assistant, ...
C20_TranscriptAlternates ==
    (pc = "idle") =>
        /\ Len(history) % 2 = 0
        /\ \A i \in DOMAIN history :
              history[i].role = IF i % 2 = 1 THEN "user" ELSE "assistant"
====
